---- MODULE Spec2Model ----
(***************************************************************************)
(* Model of floats_video_to_waveforms_06_12_2024.py: the tracking loop     *)
(* track_objects_in_video and the two calibrating callers                  *)
(* rect_floats_video_to_waveform and unrectified_to_waveform (plus the     *)
(* wrapper unrectified_to_rect_to_waveform).                               *)
(*                                                                         *)
(* Arrays are 0-based functions, as in the source.  Floating point values  *)
(* are modelled as normalised fractions <<n, d>>; d = 0 encodes the IEEE   *)
(* results of a division by zero: <<1,0>> = inf, <<-1,0>> = -inf,          *)
(* <<0,0>> = nan.                                                          *)
(***************************************************************************)
EXTENDS Integers, Sequences, FiniteSets, TLC

(* ------------------------------ bounds --------------------------------- *)
MaxFrames == 5      \* frames the source really decodes: 0..MaxFrames
MaxStakes == 3      \* num_stakes: 1..MaxStakes
MaxUpdates == 6     \* num_stakes * (frames - 1) <= MaxUpdates
MaxSkew == 1        \* |reported frame count - decodable frames| <= MaxSkew

(* --------------------------- float arithmetic -------------------------- *)
Abs(n) == IF n < 0 THEN -n ELSE n

Sgn(n) == IF n < 0 THEN -1 ELSE IF n = 0 THEN 0 ELSE 1

RECURSIVE Gcd(_, _)
Gcd(a, b) == IF b = 0 THEN a ELSE Gcd(b, a % b)

\* the float with value n/d (any d, also 0)
Float(n, d) ==
    IF d = 0 THEN <<Sgn(n), 0>>
    ELSE LET g == Gcd(Abs(n), Abs(d))
         IN  <<(Sgn(d) * n) \div g, Abs(d) \div g>>

FAdd(a, b) == Float(a[1] * b[2] + b[1] * a[2], a[2] * b[2])

\* numpy true division: a zero divisor gives inf, -inf or nan, no exception
FDiv(a, b) == Float(a[1] * b[2], a[2] * b[1])

Zero == Float(0, 1)

\* integer square root of a perfect square (np.linalg.norm on the modelled points)
Sqrt(n) == CHOOSE k \in 0..n : k * k = n

(* ------------------------------ the video ------------------------------ *)
ZeroBox == [x |-> 0, y |-> 0, w |-> 0, h |-> 0]

\* where marker i is on frame f: it moves down by 100 px per frame
MovingBox(f, i) == [x |-> 50 * (i + 1), y |-> 100 * (f + 1) - 10, w |-> 5, h |-> 20]

LOST == [success |-> FALSE, bbox |-> ZeroBox]

\* what tracker i may report on frame f
Outcomes(f, i) ==
    {LOST, [success |-> TRUE, bbox |-> MovingBox(f, i)], [success |-> TRUE, bbox |-> ZeroBox]}

\* the value that is no array
None == [n \in {-1} |-> "None"]

PPMs == {-100, 0, 100}

\* the reference point pairs a user may click for one stake
RefPairs == { <<(<<0, 0>>), (<<3, 4>>)>>, <<(<<0, 0>>), (<<6, 8>>)>>, <<(<<3, 4>>), (<<3, 4>>)>> }

VARIABLES
    pc,             \* position in the program
    entry,          \* the function the caller invoked
    arg,            \* what the first argument is: a path string or an opened capture
    show,           \* the show flag
    num_stakes,
    ppm,            \* the ppm argument (rect) or the derived vector (unrect)
    frames,         \* frames the source decodes
    reported,       \* CAP_PROP_FRAME_COUNT
    pos_frames,     \* CAP_PROP_POS_FRAMES: frames read so far
    released,       \* cap.release() was called
    total_frames,   \* track_objects_in_video's local
    position,       \* track_objects_in_video's buffer / the caller's local
    current_frame,
    i,              \* the marker index of the inner loop
    init_frame,     \* index of the frame the trackers were initialised on, -1 before
    results,        \* results[f][j]: what tracker j reported on frame f
    updates,        \* updates[f][j]: number of tracker.update calls of tracker j on frame f
    cancelled,      \* the loop was left by ESC
    raw,            \* the buffer track_objects_in_video returned, before calibration
    calls,          \* collaborators invoked so far, in order
    raised,         \* the exception that ended the run, "" if none
    returned        \* the value returned to the caller

vars == <<pc, entry, arg, show, num_stakes, ppm, frames, reported, pos_frames, released,
          total_frames, position, current_frame, i, init_frame, results, updates,
          cancelled, raw, calls, raised, returned>>

Stakes == 0..(num_stakes - 1)

(* ------------------------------ operators ------------------------------ *)
\* a buffer that leaves out the row of the frame the trackers were initialised on
zeros_short(t, n) == [f \in 0..(t - 2) |-> [j \in 0..(n - 1) |-> [c \in 0..1 |-> <<0, 1>>]]]

\* np.zeros((total_frames, num_stakes, 2))
zeros(t, n) == [f \in 0..(t - 1) |-> [j \in 0..(n - 1) |-> [c \in 0..1 |-> Zero]]]

\* (bbox[0] + bbox[2] / 2, bbox[1] + bbox[3] / 2)
center(bbox) ==
    [c \in 0..1 |-> IF c = 0 THEN FAdd(Float(bbox.x, 1), Float(bbox.w, 2))
                             ELSE FAdd(Float(bbox.y, 1), Float(bbox.h, 2))]

\* line 119: position[current_frame, i] = ... raises IndexError for a row the
\* buffer does not have (current_frame is never negative)
index_error(pos, f, out) == out.success /\ f \notin DOMAIN pos

\* lines 118-119: the write of one tracker result
record(pos, f, j, out) ==
    IF out.success THEN [pos EXCEPT ![f][j] = center(out.bbox)] ELSE pos

\* an inner loop that is left at the first tracker that fails
next_marker_break(j, out) == IF out.success THEN j + 1 ELSE num_stakes

\* the marker the inner loop turns to after marker j
next_marker(j, out) == j + 1

\* position / ppm with a scalar ppm
divide_scalar(pos, p) ==
    [f \in DOMAIN pos |-> [j \in DOMAIN pos[f] |->
        [c \in 0..1 |-> FDiv(pos[f][j][c], Float(p, 1))]]]

\* positions / ppm with ppm of shape (n,): numpy aligns ppm with the LAST axis
\* (length 2) of positions, so n must be 1 or 2
broadcastable(n) == n \in {1, 2}

divide_vector(pos, v) ==
    LET n == Cardinality(DOMAIN v)
    IN  [f \in DOMAIN pos |-> [j \in DOMAIN pos[f] |->
            [c \in 0..1 |-> FDiv(pos[f][j][c], Float(v[IF n = 1 THEN 0 ELSE c], 1))]]]

\* np.linalg.norm(all_points[:,0] - all_points[:,1], axis = 1)
norm(all_points) ==
    [s \in DOMAIN all_points |->
        LET a == all_points[s][1]
            b == all_points[s][2]
        IN  Sqrt((a[1] - b[1]) * (a[1] - b[1]) + (a[2] - b[2]) * (a[2] - b[2]))]

(* -------------------------------- Init --------------------------------- *)
Init ==
    /\ pc = "start"
    /\ entry \in {"rect", "unrect_to_rect", "unrect"}
    /\ arg \in IF entry = "rect" THEN {"path", "capture"} ELSE {"path"}
    /\ show \in BOOLEAN
    /\ num_stakes \in 1..MaxStakes
    /\ frames \in 0..MaxFrames
    /\ num_stakes * (frames - 1) <= MaxUpdates
    /\ reported \in {r \in (frames - MaxSkew)..(frames + MaxSkew) : r >= 0}
    /\ ppm = 0
    /\ pos_frames = 0
    /\ released = FALSE
    /\ total_frames = 0
    /\ position = None
    /\ current_frame = -1
    /\ i = 0
    /\ init_frame = -1
    /\ results = [f \in 0..(frames - 1) |-> [j \in Stakes |-> LOST]]
    /\ updates = [f \in 0..(frames - 1) |-> [j \in Stakes |-> 0]]
    /\ cancelled = FALSE
    /\ raw = None
    /\ calls = <<>>
    /\ raised = ""
    /\ returned = None

\* an exception leaves the program
Raise(e) ==
    /\ pc' = "failed"
    /\ raised' = e

(* ------------------------------ callers -------------------------------- *)
\* line 37: the argument is handed to track_objects_in_video as it is
rect_floats_video_to_waveform ==
    /\ pc = "start"
    /\ entry = "rect"
    /\ pc' = "track_init"
    /\ UNCHANGED <<entry, arg, show, num_stakes, ppm, frames, reported, pos_frames, released,
                   total_frames, position, current_frame, i, init_frame, results, updates,
                   cancelled, raw, calls, raised, returned>>

\* lines 75-77: rectify (external, may fail), then the rectified PATH is tracked
unrectified_to_rect_to_waveform ==
    /\ pc = "start"
    /\ entry = "unrect_to_rect"
    /\ calls' = Append(calls, "rectify")
    /\ \/ /\ pc' = "track_init"
          /\ UNCHANGED raised
       \/ Raise("RectifyError")
    /\ UNCHANGED <<entry, arg, show, num_stakes, ppm, frames, reported, pos_frames, released,
                   total_frames, position, current_frame, i, init_frame, results, updates,
                   cancelled, raw, returned>>

\* lines 138-152: open, read one frame (ret is not looked at), define_stakes, ppm
unrectified_to_waveform ==
    /\ pc = "start"
    /\ entry = "unrect"
    /\ pos_frames' = IF frames > 0 THEN 1 ELSE 0
    /\ calls' = Append(calls, "define_stakes")
    /\ \/ \E all_points \in [Stakes -> RefPairs] :
             /\ ppm' = norm(all_points)
             /\ pc' = "track_init"
             /\ UNCHANGED raised
       \/ /\ frames = 0           \* define_stakes(None, n) may also raise
          /\ Raise("cv2.error")
          /\ UNCHANGED ppm
    /\ UNCHANGED <<entry, arg, show, num_stakes, frames, reported, released,
                   total_frames, position, current_frame, i, init_frame, results, updates,
                   cancelled, raw, returned>>

(* ----------------------- track_objects_in_video ------------------------ *)
\* lines 92-108
track_init ==
    /\ pc = "track_init"
    /\ IF entry # "unrect" /\ arg = "path"
       THEN \* a str has no read()
            /\ Raise("AttributeError")
            /\ UNCHANGED <<pos_frames, calls, total_frames, position, init_frame, raw>>
       ELSE IF pos_frames >= frames
       THEN \* not ret: print and return None
            /\ pc' = "calibrate"
            /\ position' = None
            /\ raw' = None
            /\ UNCHANGED <<pos_frames, calls, total_frames, init_frame, raised>>
       ELSE /\ pos_frames' = pos_frames + 1
            /\ init_frame' = pos_frames
            /\ calls' = calls \o [j \in 1..num_stakes |-> "selectROI"]
            /\ total_frames' = reported
            /\ position' = zeros(reported, num_stakes)
            /\ pc' = "track_read"
            /\ UNCHANGED <<raw, raised>>
    /\ UNCHANGED <<entry, arg, show, num_stakes, ppm, frames, reported, released,
                   current_frame, i, results, updates, cancelled, returned>>

\* lines 110-114
track_read ==
    /\ pc = "track_read"
    /\ IF pos_frames >= frames
       THEN /\ pc' = "track_return"
            /\ UNCHANGED <<pos_frames, current_frame, i>>
       ELSE /\ pos_frames' = pos_frames + 1
            /\ current_frame' = pos_frames' - 1
            /\ i' = 0
            /\ pc' = "track_update"
    /\ UNCHANGED <<entry, arg, show, num_stakes, ppm, frames, reported, released,
                   total_frames, position, init_frame, results, updates,
                   cancelled, raw, calls, raised, returned>>

\* lines 116-121: one pass of the inner loop
track_update ==
    /\ pc = "track_update"
    /\ i < num_stakes
    /\ \E out \in Outcomes(current_frame, i) :
          /\ results' = [results EXCEPT ![current_frame][i] = out]
          /\ updates' = [updates EXCEPT ![current_frame][i] = @ + 1]
          /\ IF index_error(position, current_frame, out)
             THEN /\ Raise("IndexError")
                  /\ UNCHANGED <<position, i>>
             ELSE /\ position' = record(position, current_frame, i, out)
                  /\ i' = next_marker(i, out)
                  /\ UNCHANGED <<pc, raised>>
    /\ UNCHANGED <<entry, arg, show, num_stakes, ppm, frames, reported, pos_frames, released,
                   total_frames, current_frame, init_frame, cancelled, raw, calls, returned>>

\* lines 123-126
track_show ==
    /\ pc = "track_update"
    /\ i >= num_stakes
    /\ IF show
       THEN \E esc \in BOOLEAN :
               /\ cancelled' = esc
               /\ pc' = IF esc THEN "track_return" ELSE "track_read"
       ELSE /\ pc' = "track_read"
            /\ UNCHANGED cancelled
    /\ UNCHANGED <<entry, arg, show, num_stakes, ppm, frames, reported, pos_frames, released,
                   total_frames, position, current_frame, i, init_frame, results, updates,
                   raw, calls, raised, returned>>

\* lines 128-130
track_return ==
    /\ pc = "track_return"
    /\ released' = TRUE
    /\ raw' = position
    /\ pc' = "calibrate"
    /\ UNCHANGED <<entry, arg, show, num_stakes, ppm, frames, reported, pos_frames,
                   total_frames, position, current_frame, i, init_frame, results, updates,
                   cancelled, calls, raised, returned>>

(* ---------------------------- calibration ------------------------------ *)
\* line 40; the ppm argument is read here for the first time, so it is drawn here
rect_calibrate ==
    /\ pc = "calibrate"
    /\ entry # "unrect"
    /\ IF position = None
       THEN /\ Raise("TypeError")
            /\ UNCHANGED <<position, ppm>>
       ELSE \E p \in PPMs :
               /\ ppm' = p
               /\ position' = divide_scalar(position, p)
               /\ pc' = "plot"
               /\ UNCHANGED raised
    /\ UNCHANGED <<entry, arg, show, num_stakes, frames, reported, pos_frames, released,
                   total_frames, current_frame, i, init_frame, results, updates,
                   cancelled, raw, calls, returned>>

\* lines 43-50: savefig may fail, the exception is not caught
rect_plot ==
    /\ pc = "plot"
    /\ calls' = Append(calls, "savefig")
    /\ \/ /\ pc' = "save"
          /\ UNCHANGED raised
       \/ Raise("OutputError")
    /\ UNCHANGED <<entry, arg, show, num_stakes, ppm, frames, reported, pos_frames, released,
                   total_frames, position, current_frame, i, init_frame, results, updates,
                   cancelled, raw, returned>>

\* lines 52-53: np.save may fail, the exception is not caught
rect_save ==
    /\ pc = "save"
    /\ calls' = Append(calls, "np.save")
    /\ \/ /\ pc' = "done"
          /\ returned' = position
          /\ UNCHANGED raised
       \/ /\ Raise("OutputError")
          /\ UNCHANGED returned
    /\ UNCHANGED <<entry, arg, show, num_stakes, ppm, frames, reported, pos_frames, released,
                   total_frames, position, current_frame, i, init_frame, results, updates,
                   cancelled, raw>>

\* lines 159-162
unrect_calibrate ==
    /\ pc = "calibrate"
    /\ entry = "unrect"
    /\ IF position = None
       THEN /\ Raise("TypeError")
            /\ UNCHANGED <<position, returned>>
       ELSE IF ~broadcastable(num_stakes)
       THEN /\ Raise("ValueError")
            /\ UNCHANGED <<position, returned>>
       ELSE /\ position' = divide_vector(position, ppm)
            /\ returned' = position'
            /\ pc' = "done"
            /\ UNCHANGED raised
    /\ UNCHANGED <<entry, arg, show, num_stakes, ppm, frames, reported, pos_frames, released,
                   total_frames, current_frame, i, init_frame, results, updates,
                   cancelled, raw, calls>>

Next ==
    \/ rect_floats_video_to_waveform
    \/ unrectified_to_rect_to_waveform
    \/ unrectified_to_waveform
    \/ track_init
    \/ track_read
    \/ track_update
    \/ track_show
    \/ track_return
    \/ rect_calibrate
    \/ rect_plot
    \/ rect_save
    \/ unrect_calibrate

Spec == Init /\ [][Next]_vars

(* ------------------------- views used by the claims -------------------- *)
Tracking == pc \in {"track_read", "track_update", "track_return"}

\* the pixel buffer of track_objects_in_video: being filled, or as returned
Buffer == IF Tracking THEN position ELSE raw

Unset == [c \in 0..1 |-> Zero]

Updated(f, j) == f \in DOMAIN updates /\ updates[f][j] = 1

Lost(f, j) == Updated(f, j) /\ ~results[f][j].success

Active(f, j) == Updated(f, j) /\ results[f][j].success

Column(pos, j) == [f \in DOMAIN pos |-> pos[f][j]]

\* track_objects_in_video run for marker j alone on frames f..last, with the
\* results tracker j reported
RECURSIVE run_alone(_, _, _, _)
run_alone(pos, f, last, j) ==
    IF f > last THEN pos
    ELSE run_alone(record(pos, f, 0, results[f][j]), f + 1, last, j)

(* ------------------------------- claims -------------------------------- *)

\* C1: whatever cells were lost, a returned result has first dimension equal
\* to the reported frame count, second dimension num_stakes, third dimension 2.
C1_ResultShape ==
    pc = "done" =>
        /\ DOMAIN returned = 0..(reported - 1)
        /\ \A f \in DOMAIN returned :
              /\ DOMAIN returned[f] = 0..(num_stakes - 1)
              /\ \A j \in DOMAIN returned[f] : DOMAIN returned[f][j] = 0..1

C1_Witness ==
    /\ pc = "done"
    /\ reported >= 3
    /\ num_stakes >= 2
    /\ \E f \in DOMAIN results : \E j \in Stakes : Lost(f, j)

\* C2: a 5-frame source, one marker tracked on every frame with centre
\* y = 100, 200, ..., 500, ppm = 100: the rectified pipeline returns
\* y = 1, 2, 3, 4, 5 in rows 0..4, the initialisation frame included.
C2_LinearMotion ==
    ( /\ pc = "done"
      /\ entry = "rect"
      /\ num_stakes = 1
      /\ frames = 5
      /\ reported = 5
      /\ ppm = 100
      /\ ~cancelled
      /\ \A f \in 1..4 : Active(f, 0) /\ results[f][0].bbox = MovingBox(f, 0) )
    => \A f \in 0..4 : returned[f][0][1] = Float(f + 1, 1)

C4_Cancellation ==
    (cancelled /\ pc = "calibrate") =>
        /\ raw # None
        /\ \A f \in DOMAIN raw : \A j \in Stakes :
              /\ (f >= pos_frames) => raw[f][j] = Unset
              /\ (f < pos_frames /\ Active(f, j)) => raw[f][j] = center(results[f][j].bbox)
              /\ (f = init_frame) => raw[f][j] = center(MovingBox(f, j))

\* C5: whatever the reported frame count, no buffer write is out of range:
\* the loop never ends in an IndexError.
C5_WritesInRange ==
    raised # "IndexError"

\* C6: per-marker calibration divides both coordinates of cell (f, j) by
\* marker j's own scale, the distance between marker j's reference points.
C6_PerMarkerScale ==
    (pc = "done" /\ entry = "unrect") =>
        \A f \in DOMAIN returned : \A j \in Stakes : \A c \in 0..1 :
            returned[f][j][c] = FDiv(raw[f][j][c], Float(ppm[j], 1))

\* C7: with a scale that is zero or negative no WaveformResult is produced,
\* plotted, persisted or returned.
C7_ScaleFailsFast ==
    pc \in {"plot", "save", "done"} =>
        IF entry = "unrect" THEN \A s \in DOMAIN ppm : ppm[s] > 0 ELSE ppm > 0

\* C8: when the source yields no initial frame, on both entry paths no
\* collaborator is invoked, no tracker is initialised, the loop is not
\* entered and no result is returned.
C8_NoInitialFrame ==
    (frames = 0 /\ entry \in {"rect", "unrect"}) =>
        /\ calls = <<>>
        /\ init_frame = -1
        /\ ~Tracking
        /\ pc \notin {"plot", "save", "done"}

\* C9: a failure of savefig or np.save does not end the run: the computed
\* result is still returned.
C9_OutputNonFatal ==
    raised # "OutputError"

\* C10: a cell that was lost or never processed differs from a cell whose
\* tracker succeeded with centre (0, 0).
C10_LostDistinguishable ==
    Buffer # None =>
        \A f \in DOMAIN Buffer : \A g \in DOMAIN Buffer : \A j \in Stakes : \A k \in Stakes :
            (~Active(f, j) /\ Active(g, k) /\ results[g][k].bbox = ZeroBox)
                => Buffer[f][j] # Buffer[g][k]

====
